---- MODULE Spec2Model ----
(***************************************************************************)
(* Model of split_dots_with_main_suffix_nodes.py: a DOT call graph is      *)
(* parsed into an edge list, a directed graph is built from it, the root   *)
(* candidates ("main" or "*Main") are selected, and for every root the     *)
(* nodes within 3 hops are collected by BFS, the edges among them are      *)
(* filtered and one <root>.dot file is written.                            *)
(*                                                                         *)
(* Text is modelled character by character: a string is a sequence of      *)
(* one-character strings, a file is the sequence of its characters.  The   *)
(* token "U+00E9" stands for the single character e-acute.  The inputs     *)
(* hold no carriage return, so the newline translation of text mode        *)
(* changes nothing.                                                        *)
(***************************************************************************)
EXTENDS Integers, Sequences, FiniteSets, TLC

\* ------------------------------------------------------------------ bounds

\* Largest number of edge lines in an input file.
MaxLines == 4

\* ------------------------------------------------------------- characters

AsciiLower ==
    {"a", "b", "c", "d", "e", "f", "g", "h", "i", "j", "k", "l", "m",
     "n", "o", "p", "q", "r", "s", "t", "u", "v", "w", "x", "y", "z"}

\* Lowercase letters outside ASCII that occur in the inputs.
UnicodeLower == {"U+00E9"}

\* str.islower() of a one-character string: the character is cased and
\* lowercase, in any script.
IsLower(c) == c \in AsciiLower \cup UnicodeLower

\* \s of the re module on str patterns, restricted to the characters used.
IsSpace(c) == c \in {" ", "\t", "\n", "\r", "\f"}

Quote == "\""

Range(s) == {s[i] : i \in 1..Len(s)}

\* s.endswith(suffix)
EndsWith(s, suffix) ==
    /\ Len(suffix) <= Len(s)
    /\ SubSeq(s, Len(s) - Len(suffix) + 1, Len(s)) = suffix

NameMain == <<"m", "a", "i", "n">>
SuffixMain == <<"M", "a", "i", "n">>

\* ------------------------------------------------------------ parse_dotfile

\* The character at position i, or a token no pattern element matches when
\* i is past the end of the text.
CharAt(text, i) == IF i \in 1..Len(text) THEN text[i] ELSE "EOF"

\* \s* from position i: the first position at or after i holding no
\* whitespace.
RECURSIVE SkipSpace(_, _)
SkipSpace(text, i) ==
    IF i <= Len(text) /\ IsSpace(text[i]) THEN SkipSpace(text, i + 1) ELSE i

\* [^"]* from position i: the first position at or after i holding a quote
\* (or the position past the end).
RECURSIVE SkipName(_, _)
SkipName(text, i) ==
    IF i <= Len(text) /\ text[i] # Quote THEN SkipName(text, i + 1) ELSE i

\* edge_pattern.match(line) for ^\s*"([^"]+)"\s*->\s*"([^"]+)"; : the pair
\* of groups as <<src, dst>>, or <<>> when the line does not match.
MatchEdge(line) ==
    LET q1 == SkipSpace(line, 1)
        e1 == SkipName(line, q1 + 1)
        a  == SkipSpace(line, e1 + 1)
        q2 == SkipSpace(line, a + 2)
        e2 == SkipName(line, q2 + 1)
    IN  IF /\ CharAt(line, q1) = Quote
           /\ e1 > q1 + 1
           /\ CharAt(line, e1) = Quote
           /\ CharAt(line, a) = "-"
           /\ CharAt(line, a + 1) = ">"
           /\ CharAt(line, q2) = Quote
           /\ e2 > q2 + 1
           /\ CharAt(line, e2) = Quote
           /\ CharAt(line, e2 + 1) = ";"
        THEN <<SubSeq(line, q1 + 1, e1 - 1), SubSeq(line, q2 + 1, e2 - 1)>>
        ELSE <<>>

\* The position of the first newline at or after i, or Len(text) when
\* there is none: the end of the line that starts at i.
RECURSIVE LineEnd(_, _)
LineEnd(text, i) ==
    IF i >= Len(text) \/ text[i] = "\n" THEN i ELSE LineEnd(text, i + 1)

\* Iterating a text file from position i: the lines of the text, each with
\* its newline.
RECURSIVE LinesFrom(_, _)
LinesFrom(text, i) ==
    IF i > Len(text) THEN <<>>
    ELSE LET e == LineEnd(text, i)
         IN  <<SubSeq(text, i, e)>> \o LinesFrom(text, e + 1)

SplitLines(text) == LinesFrom(text, 1)

RECURSIVE ParseLines(_)
ParseLines(lines) ==
    IF lines = <<>> THEN <<>>
    ELSE LET m == MatchEdge(Head(lines))
         IN  (IF m # <<>> THEN <<m>> ELSE <<>>) \o ParseLines(Tail(lines))

parse_dotfile(text) == ParseLines(SplitLines(text))

\* ------------------------------------------------------------ build_digraph

\* An empty nx.DiGraph: nodes in insertion order, and for each node its
\* successors in insertion order.
EmptyGraph == [nodes |-> <<>>, adj |-> <<>>]

AddNode(g, n) ==
    IF n \in Range(g.nodes) THEN g
    ELSE [nodes |-> Append(g.nodes, n), adj |-> Append(g.adj, <<>>)]

IndexOf(seq, x) == CHOOSE i \in 1..Len(seq) : seq[i] = x

\* G.add_edge(src, dst)
add_edge(g, src, dst) ==
    LET g2 == AddNode(AddNode(g, src), dst)
        k  == IndexOf(g2.nodes, src)
    IN  IF dst \in Range(g2.adj[k]) THEN g2
        ELSE [g2 EXCEPT !.adj[k] = Append(@, dst)]

RECURSIVE AddEdges(_, _)
AddEdges(g, es) ==
    IF es = <<>> THEN g
    ELSE AddEdges(add_edge(g, Head(es)[1], Head(es)[2]), Tail(es))

build_digraph(es) == AddEdges(EmptyGraph, es)

\* graph.successors(node)
successors(g, n) == g.adj[IndexOf(g.nodes, n)]

\* ---------------------------------------------------------- root selection

is_ignored_node(node) ==
    IF node = NameMain THEN FALSE
    ELSE Len(node) > 0 /\ IsLower(node[1])

IsRootCandidate(node) ==
    /\ ~is_ignored_node(node)
    /\ node = NameMain \/ EndsWith(node, SuffixMain)

\* find_root_candidates without the ignore check of line 54.
find_root_candidates_unchecked(g) ==
    LET Named(node) == node = NameMain \/ EndsWith(node, SuffixMain)
    IN  SelectSeq(g.nodes, Named)

find_root_candidates(g) == SelectSeq(g.nodes, IsRootCandidate)

\* ------------------------------------- collect_subgraph_nodes_up_to_3_hops

\* The state of the traversal: the visited set and the queue of
\* <<node, depth>> pairs.
BFSStart(root) ==
    IF ~is_ignored_node(root)
    THEN [visited |-> {root}, queue |-> <<<<root, 0>>>>]
    ELSE [visited |-> {}, queue |-> <<>>]

\* No node stops the traversal.
StopsAtNever(node, r) == FALSE

\* A non-root node ending in "Main" is not expanded.
StopsAt(node, r) == node # r /\ EndsWith(node, SuffixMain)

\* The hop test off by one.
WithinHops4(depth) == depth < 4

WithinHops(depth) == depth < 3

\* VisitSuccessor without the ignore check of line 86.
VisitSuccessorNoIgnore(st, nxt, depth) ==
    IF nxt \notin st.visited
    THEN [visited |-> st.visited \cup {nxt},
          queue   |-> Append(st.queue, <<nxt, depth + 1>>)]
    ELSE st

\* VisitSuccessor without the visited test of line 89.
VisitSuccessorAgain(st, nxt, depth) ==
    IF is_ignored_node(nxt) THEN st
    ELSE [visited |-> st.visited \cup {nxt},
          queue   |-> Append(st.queue, <<nxt, depth + 1>>)]

\* The body of the loop over the successors, for one successor nxt.
VisitSuccessor(st, nxt, depth) ==
    IF is_ignored_node(nxt) THEN st
    ELSE IF nxt \notin st.visited
         THEN [visited |-> st.visited \cup {nxt},
               queue   |-> Append(st.queue, <<nxt, depth + 1>>)]
         ELSE st

RECURSIVE VisitSuccessors(_, _, _)
VisitSuccessors(st, succs, depth) ==
    IF succs = <<>> THEN st
    ELSE VisitSuccessors(VisitSuccessor(st, Head(succs), depth), Tail(succs), depth)

\* One iteration of the while loop: popleft, then the body.
BFSIter(g, root, st) ==
    LET current_node == Head(st.queue)[1]
        depth        == Head(st.queue)[2]
        popped       == [visited |-> st.visited, queue |-> Tail(st.queue)]
    IN  IF StopsAt(current_node, root) THEN popped
        ELSE IF WithinHops(depth)
             THEN VisitSuccessors(popped, successors(g, current_node), depth)
             ELSE popped

\* The whole function: iterate until the queue is empty, return visited.
RECURSIVE BFSRun(_, _, _)
BFSRun(g, root, st) ==
    IF st.queue = <<>> THEN st.visited ELSE BFSRun(g, root, BFSIter(g, root, st))

collect_subgraph_nodes_up_to_3_hops(g, root) == BFSRun(g, root, BFSStart(root))

\* --------------------------------------------------------- filter_sub_edges

\* The condition without the exclusion of lines 105-106.
KeepEdgeBothIn(e, sub_nodes, r) ==
    e[1] \in sub_nodes /\ e[2] \in sub_nodes

\* The exclusion with "or" for "and": only edges leaving the root pass.
KeepEdgeRootOnly(e, sub_nodes, r) ==
    /\ e[1] \in sub_nodes /\ e[2] \in sub_nodes
    /\ ~(e[1] # r \/ EndsWith(e[1], SuffixMain))

KeepEdge(e, sub_nodes, root) ==
    /\ e[1] \in sub_nodes /\ e[2] \in sub_nodes
    /\ ~(e[1] # root /\ EndsWith(e[1], SuffixMain))

filter_sub_edges(es, sub_nodes, root) ==
    LET Keep(e) == KeepEdge(e, sub_nodes, root)
    IN  SelectSeq(es, Keep)

\* ------------------------------------------------------- write_subgraph_dot

Preamble ==
    <<"d", "i", "g", "r", "a", "p", "h", " ", "c", "f", "l", "o", "w", " ", "{", "\n">>
    \o <<" ", " ", " ", " ", "r", "a", "n", "k", "d", "i", "r", "=", "T", "B", ";", "\n">>
    \o <<" ", " ", " ", " ", "n", "o", "d", "e", " ", "[", "s", "h", "a", "p", "e", "=",
         "b", "o", "x", "]", ";", "\n">>
    \o <<" ", " ", " ", " ", "o", "v", "e", "r", "l", "a", "p", "=", "f", "a", "l", "s",
         "e", ";", "\n">>
    \o <<" ", " ", " ", " ", "s", "p", "l", "i", "n", "e", "s", "=", "t", "r", "u", "e",
         ";", "\n">>

RootLine(root) ==
    <<" ", " ", " ", " ", "r", "o", "o", "t", "=", "\"">> \o root \o <<"\"", ";", "\n", "\n">>

\* The edge line without its semicolon.
EdgeLineNoSemicolon(src, dst) ==
    <<" ", " ", " ", " ", "\"">> \o src \o <<"\"", " ", "-", ">", " ", "\"">> \o dst
    \o <<"\"", "\n">>

EdgeLine(src, dst) ==
    <<" ", " ", " ", " ", "\"">> \o src \o <<"\"", " ", "-", ">", " ", "\"">> \o dst
    \o <<"\"", ";", "\n">>

RECURSIVE EdgeLines(_)
EdgeLines(es) ==
    IF es = <<>> THEN <<>>
    ELSE EdgeLine(Head(es)[1], Head(es)[2]) \o EdgeLines(Tail(es))

Closing == <<"}", "\n">>

\* The text write_subgraph_dot leaves in the file.
write_subgraph_dot(root, subgraph_edges) ==
    Preamble \o RootLine(root) \o EdgeLines(subgraph_edges) \o Closing

\* f"{root}.dot"
OutputFilename(root) == root \o <<".", "d", "o", "t">>

\* ------------------------------------------------------------------ inputs

N_main == NameMain
N_A == <<"A">>
N_B == <<"B">>
N_C == <<"C">>
N_D == <<"D">>
N_XMain == <<"X", "M", "a", "i", "n">>
N_xMain == <<"x", "M", "a", "i", "n">>
N_eB == <<"U+00E9", "B">>

\* The header line cflow2dot prints.
DigraphHeader ==
    <<"d", "i", "g", "r", "a", "p", "h", " ", "c", "f", "l", "o", "w", " ", "{", "\n">>

\* The edge line cflow2dot prints:     "src" -> "dst";
IndentedLine(src, dst) ==
    <<" ", " ", " ", " ", "\"">> \o src \o <<"\"", " ", "-", ">", " ", "\"">> \o dst
    \o <<"\"", ";", "\n">>

\* The closing brace cflow2dot prints.
ClosingBrace == <<"}", "\n">>

\* "src"->"dst"; with no space anywhere
CompactLine(src, dst) ==
    <<"\"">> \o src \o <<"\"", "-", ">", "\"">> \o dst \o <<"\"", ";", "\n">>

\* a tab in front, two spaces around the arrow, text after the semicolon
LooseLine(src, dst) ==
    <<"\t", "\"">> \o src \o <<"\"", " ", " ", "-", ">", " ", " ", "\"">> \o dst
    \o <<"\"", ";", " ", "/", "/", "\n">>

\* The edge lines of the inputs with several entry points: two roots (main,
\* XMain), a cycle through main, an ignored node ending in "Main" and a
\* node starting with a lowercase letter outside ASCII.
InputLines ==
    { IndentedLine(N_main, N_A),
      CompactLine(N_A, N_B),
      LooseLine(N_B, N_main),
      IndentedLine(N_main, N_XMain),
      IndentedLine(N_XMain, N_A),
      IndentedLine(N_main, N_xMain),
      IndentedLine(N_A, N_eB) }

\* The edge lines of the deep inputs: the chain main -> A -> B -> C -> D, a
\* shortcut, a self-loop, a cycle through main and an ignored node.
DeepInputLines ==
    { IndentedLine(N_main, N_A),
      CompactLine(N_A, N_B),
      LooseLine(N_B, N_C),
      IndentedLine(N_C, N_D),
      IndentedLine(N_main, N_B),
      CompactLine(N_A, N_A),
      IndentedLine(N_B, N_main),
      IndentedLine(N_A, N_xMain) }

RECURSIVE Flatten(_)
Flatten(lines) == IF lines = <<>> THEN <<>> ELSE Head(lines) \o Flatten(Tail(lines))

\* The input files over a set of edge lines: the header cflow2dot writes,
\* up to MaxLines of the lines in any order and with repetitions, and the
\* closing brace.
FilesOver(lines) ==
    { DigraphHeader \o Flatten(ls) \o ClosingBrace :
        ls \in UNION {[1..n -> lines] : n \in 0..MaxLines} }

InputFiles == FilesOver(InputLines)

DeepInputFiles == FilesOver(DeepInputLines)

\* ------------------------------------------------------------------- state

VARIABLES
    argc,             \* len(sys.argv)
    input,            \* the text of the input file
    pc,               \* the position in main()
    edges,            \* the parsed edge list
    G,                \* the graph
    root_candidates,  \* the list of roots
    ri,               \* the index of the current root in the for loop
    bfs,              \* visited and queue of the running traversal
    sub_edges,        \* the filtered edges of the current root
    files             \* the files written: file name -> text

vars == <<argc, input, pc, edges, G, root_candidates, ri, bfs, sub_edges, files>>

root == root_candidates[ri]

\* The start of main() on one of the given input files, or with no
\* argument.
InitOn(inputs) ==
    /\ argc \in {1, 2}
    /\ input \in (IF argc = 2 THEN inputs ELSE {<<>>})
    /\ pc = "start"
    /\ edges = <<>>
    /\ G = EmptyGraph
    /\ root_candidates = <<>>
    /\ ri = 1
    /\ bfs = [visited |-> {}, queue |-> <<>>]
    /\ sub_edges = <<>>
    /\ files = <<>>

Init == InitOn(InputFiles)

InitDeep == InitOn(DeepInputFiles)

\* no argument: the usage message and sys.exit(1)
Usage ==
    /\ pc = "start"
    /\ argc < 2
    /\ pc' = "exit"
    /\ UNCHANGED <<argc, input, edges, G, root_candidates, ri, bfs, sub_edges, files>>

\* edges = parse_dotfile(input_filename)
Parse ==
    /\ pc = "start"
    /\ ~(argc < 2)
    /\ edges' = parse_dotfile(input)
    /\ pc' = "build"
    /\ UNCHANGED <<argc, input, G, root_candidates, ri, bfs, sub_edges, files>>

\* G = build_digraph(edges)
Build ==
    /\ pc = "build"
    /\ G' = build_digraph(edges)
    /\ pc' = "roots"
    /\ UNCHANGED <<argc, input, edges, root_candidates, ri, bfs, sub_edges, files>>

\* root_candidates = find_root_candidates(G); return when there is none
FindRoots ==
    /\ pc = "roots"
    /\ root_candidates' = find_root_candidates(G)
    /\ pc' = IF root_candidates' = <<>> THEN "done" ELSE "collect"
    /\ UNCHANGED <<argc, input, edges, G, ri, bfs, sub_edges, files>>

\* entry of collect_subgraph_nodes_up_to_3_hops(G, root)
CollectStart ==
    /\ pc = "collect"
    /\ bfs' = BFSStart(root)
    /\ pc' = "bfs"
    /\ UNCHANGED <<argc, input, edges, G, root_candidates, ri, sub_edges, files>>

\* one iteration of its while loop
CollectStep ==
    /\ pc = "bfs"
    /\ bfs.queue # <<>>
    /\ bfs' = BFSIter(G, root, bfs)
    /\ UNCHANGED <<argc, input, pc, edges, G, root_candidates, ri, sub_edges, files>>

\* the loop ends, visited is returned; sub_edges = filter_sub_edges(...)
Filter ==
    /\ pc = "bfs"
    /\ bfs.queue = <<>>
    /\ sub_edges' = filter_sub_edges(edges, bfs.visited, root)
    /\ pc' = "write"
    /\ UNCHANGED <<argc, input, edges, G, root_candidates, ri, bfs, files>>

\* write_subgraph_dot(output_filename, root, sub_edges)
WriteFile ==
    /\ pc = "write"
    /\ files' = (OutputFilename(root) :> write_subgraph_dot(root, sub_edges)) @@ files
    /\ pc' = "generated"
    /\ UNCHANGED <<argc, input, edges, G, root_candidates, ri, bfs, sub_edges>>

\* print("Generated: ..."), then the next root or the end of main()
NextRoot ==
    /\ pc = "generated"
    /\ IF ri < Len(root_candidates)
       THEN ri' = ri + 1 /\ pc' = "collect"
       ELSE ri' = ri /\ pc' = "done"
    /\ UNCHANGED <<argc, input, edges, G, root_candidates, bfs, sub_edges, files>>

Next ==
    \/ Usage
    \/ Parse
    \/ Build
    \/ FindRoots
    \/ CollectStart
    \/ CollectStep
    \/ Filter
    \/ WriteFile
    \/ NextRoot

\* main() on the inputs with several entry points.
Spec == Init /\ [][Next]_vars

\* main() on the deep inputs.
SpecDeep == InitDeep /\ [][Next]_vars

\* ----------------------------------------------------------------- claims

EdgeSet == Range(edges)
Nodes == Range(G.nodes)

\* The traversal of the current root is running or has returned.
Collecting == pc \in {"bfs", "write", "generated"}
\* The traversal of the current root has returned bfs.visited, and
\* sub_edges holds the edges filter_sub_edges kept for it.
Filtered == pc = "write"

\* Another entry point: a node other than the root r whose name ends in
\* "Main".
EntryPoint(n, r) == n # r /\ EndsWith(n, SuffixMain)

\* The nodes one hop further: the targets that are not ignored of the edges
\* leaving a node of S that is not another entry point.
OneHop(S, r) ==
    S \cup {e[2] : e \in {f \in EdgeSet : /\ f[1] \in S
                                          /\ ~EntryPoint(f[1], r)
                                          /\ ~is_ignored_node(f[2])}}

\* The nodes at BFS depth at most k from r.
RECURSIVE Within(_, _)
Within(k, r) == IF k = 0 THEN {r} ELSE OneHop(Within(k - 1, r), r)

\* The nodes at BFS depth exactly k from r.
AtDepth(k, r) == IF k = 0 THEN {r} ELSE Within(k, r) \ Within(k - 1, r)

ChainEdges == <<<<N_main, N_A>>, <<N_A, N_B>>, <<N_B, N_C>>, <<N_C, N_D>>>>

\* C1: while a root's traversal runs and after it, the visited set holds no
\* node for which is_ignored_node is true, and no endpoint of an edge kept
\* by filter_sub_edges is an ignored node.
C1_NoIgnoredNode ==
    /\ Collecting => \A n \in bfs.visited : ~is_ignored_node(n)
    /\ pc \in {"write", "generated"} =>
          \A i \in 1..Len(sub_edges) :
             ~is_ignored_node(sub_edges[i][1]) /\ ~is_ignored_node(sub_edges[i][2])

\* An ignored successor of the root was met in a graph with a cycle, and
\* edges were written.
C1_Witness ==
    /\ pc = "generated"
    /\ sub_edges # <<>>
    /\ \E e \in EdgeSet : e[1] = root /\ is_ignored_node(e[2])
    /\ <<N_B, N_main>> \in EdgeSet
    /\ N_B \in bfs.visited

\* C2: every queued pair <<n, d>> has d the BFS depth of n, and the returned
\* set is exactly the nodes at BFS depth 0..3: nothing first met at depth 4
\* or more is in it.  For the chain main -> A -> B -> C -> D the result for
\* main is {main, A, B, C}.
C2_ThreeHopBound ==
    /\ pc = "bfs" => \A i \in 1..Len(bfs.queue) :
                        /\ bfs.queue[i][2] \in 0..3
                        /\ bfs.queue[i][1] \in AtDepth(bfs.queue[i][2], root)
    /\ Filtered =>
          LET near == Within(3, root)
          IN  /\ bfs.visited = near
              /\ bfs.visited \cap (OneHop(near, root) \ near) = {}
    /\ (Filtered /\ edges = ChainEdges /\ root = N_main) =>
          bfs.visited = {N_main, N_A, N_B, N_C}

\* The chain was traversed from main: C is in, D at depth 4 is out.
C2_Witness ==
    /\ pc = "write"
    /\ edges = ChainEdges
    /\ root = N_main
    /\ N_C \in bfs.visited
    /\ N_D \notin bfs.visited
    /\ N_D \in Within(4, root)

\* The nodes that were expanded: met at depth 0..2 and not another entry
\* point.
Expanded(r) == {n \in Within(2, r) : ~EntryPoint(n, r)}

\* C3 as stated: every non-root node ending in "Main" that is a successor of
\* an expanded node is in visited, and no kept edge leaves it.
C3_Original ==
    Filtered =>
       LET expanded == Expanded(root)
       IN  \A e \in EdgeSet :
          (e[1] \in expanded /\ EntryPoint(e[2], root)) =>
             /\ e[2] \in bfs.visited
             /\ \A i \in 1..Len(sub_edges) : sub_edges[i][1] # e[2]

\* C3 amended: every non-root node ending in "Main" that is not ignored and
\* is a successor of an expanded node is in visited, and no kept edge leaves
\* it; every visited node other than the root has an edge from a visited
\* node that is not another entry point (nothing is met through one); for
\* the graph main -> XMain -> A the subgraph of main is {main, XMain} with
\* the one edge main -> XMain.
C3_StopAtEntryPoint ==
    /\ Filtered =>
          LET expanded == Expanded(root)
          IN  \A e \in EdgeSet :
             (/\ e[1] \in expanded
              /\ EntryPoint(e[2], root)
              /\ ~is_ignored_node(e[2])) =>
                /\ e[2] \in bfs.visited
                /\ \A i \in 1..Len(sub_edges) : sub_edges[i][1] # e[2]
    /\ Filtered =>
          \A v \in bfs.visited \ {root} :
             \E e \in EdgeSet :
                e[2] = v /\ e[1] \in bfs.visited /\ ~EntryPoint(e[1], root)
    /\ (Filtered /\ EdgeSet = {<<N_main, N_XMain>>, <<N_XMain, N_A>>} /\ root = N_main) =>
          /\ bfs.visited = {N_main, N_XMain}
          /\ Range(sub_edges) = {<<N_main, N_XMain>>}

\* main -> XMain -> A was traversed from main: XMain is in, A is out.
C3_Witness ==
    /\ pc = "write"
    /\ root = N_main
    /\ {<<N_main, N_XMain>>, <<N_XMain, N_A>>} \subseteq EdgeSet
    /\ N_XMain \in bfs.visited
    /\ N_A \notin bfs.visited

\* C4: the roots are exactly the nodes that are "main" or end in "Main" and
\* are not ignored, each once, in the order of the graph's nodes; the
\* visited set of a selected root contains the root.
C4_RootCandidates ==
    pc \in {"collect", "bfs", "write", "generated", "done"} =>
       /\ Range(root_candidates) =
             {n \in Nodes : /\ n = NameMain \/ EndsWith(n, SuffixMain)
                            /\ ~is_ignored_node(n)}
       /\ \A i, j \in 1..Len(root_candidates) :
             i < j => /\ root_candidates[i] # root_candidates[j]
                      /\ IndexOf(G.nodes, root_candidates[i])
                            < IndexOf(G.nodes, root_candidates[j])
       /\ Collecting => root \in bfs.visited

\* Two roots were selected, and an ignored node ending in "Main" was not.
C4_Witness ==
    /\ pc = "bfs"
    /\ Len(root_candidates) >= 2
    /\ ri = 2
    /\ \E n \in Nodes : is_ignored_node(n) /\ EndsWith(n, SuffixMain)

\* C5 as stated: is_ignored_node(node) is true exactly when node is not
\* empty, is not "main" and starts with one of the ASCII letters a-z; so
\* "main", "Foo" and "" are not ignored and "mainHelper" is.
C5_Original ==
    /\ ~is_ignored_node(NameMain)
    /\ is_ignored_node(NameMain \o <<"H", "e", "l", "p", "e", "r">>)
    /\ ~is_ignored_node(<<"F", "o", "o">>)
    /\ ~is_ignored_node(<<>>)
    /\ pc \notin {"start", "exit", "build"} =>
          \A n \in Nodes :
             is_ignored_node(n) <=> (Len(n) > 0 /\ n # NameMain /\ n[1] \in AsciiLower)

\* The edge at position k of the parsed list is to be kept.
Kept(k) ==
    /\ edges[k][1] \in bfs.visited
    /\ edges[k][2] \in bfs.visited
    /\ ~EntryPoint(edges[k][1], root)

\* The number of edges to be kept among the first k.
KeptUpTo(k) == Cardinality({j \in 1..k : Kept(j)})

\* C6: filter_sub_edges keeps an edge of the parsed list exactly when both
\* ends are visited and its source is not another entry point; the kept
\* edges are in input order, and nothing else is produced.
C6_FilterSubEdges ==
    Filtered =>
       /\ Len(sub_edges) = KeptUpTo(Len(edges))
       /\ \A k \in 1..Len(edges) : Kept(k) => sub_edges[KeptUpTo(k)] = edges[k]

\* One edge was dropped for its source, one for an end outside visited, and
\* two were kept.
C6_Witness ==
    /\ pc = "write"
    /\ Len(sub_edges) >= 2
    /\ \E k \in 1..Len(edges) :
          /\ edges[k][1] \in bfs.visited /\ edges[k][2] \in bfs.visited
          /\ EntryPoint(edges[k][1], root)
    /\ \E k \in 1..Len(edges) : edges[k][2] \notin bfs.visited

\* C7 as stated: no written file holds the same edge line twice.
C7_Original ==
    \A f \in DOMAIN files :
       LET ls == SplitLines(files[f])
       IN  \A i, j \in 1..Len(ls) :
              (i < j /\ MatchEdge(ls[i]) # <<>>) => ls[i] # ls[j]

\* C8: the file written for a root, parsed again by parse_dotfile, gives
\* exactly the kept edges of that root, in order.
C8_RoundTrip ==
    pc = "generated" => parse_dotfile(files[OutputFilename(root)]) = sub_edges

\* A file with two edges was written, one of them read from a line that
\* was not in the writer's format.
C8_Witness ==
    /\ pc = "generated"
    /\ Len(sub_edges) >= 2
    /\ <<N_A, N_B>> \in Range(sub_edges)

\* The queue holds each node at most once, only visited nodes, and depths
\* 0..3.
QueueOK ==
    pc = "bfs" =>
       /\ \A i \in 1..Len(bfs.queue) :
             /\ bfs.queue[i][1] \in bfs.visited
             /\ bfs.queue[i][2] \in 0..3
       /\ \A i, j \in 1..Len(bfs.queue) : i < j => bfs.queue[i][1] # bfs.queue[j][1]

\* The work left to the traversal.
Variant == Cardinality(Nodes \ bfs.visited) + Len(bfs.queue)

\* An iteration pops one pair and enqueues exactly the nodes it adds to
\* visited, each once, and the work left decreases; the loop is left
\* exactly when the queue is empty.
StepOK ==
    /\ (pc = "bfs" /\ pc' = "bfs") =>
          LET n   == Len(bfs.queue)
              new == SubSeq(bfs'.queue, n, Len(bfs'.queue))
          IN  /\ n > 0
              /\ SubSeq(bfs'.queue, 1, n - 1) = Tail(bfs.queue)
              /\ bfs.visited \subseteq bfs'.visited
              /\ {new[i][1] : i \in 1..Len(new)} = bfs'.visited \ bfs.visited
              /\ Len(new) = Cardinality(bfs'.visited \ bfs.visited)
              /\ Variant' < Variant
    /\ (pc = "bfs" /\ pc' # "bfs") => (bfs.queue = <<>> /\ bfs'.visited = bfs.visited)

\* C9: the traversal ends on every graph, cycles and self-loops included:
\* a node is enqueued at most once, when it is first added to visited,
\* every queued depth is in 0..3, every iteration decreases the work left
\* (a natural number), and the loop ends when the queue is empty.
C9_Terminates == []QueueOK /\ [][StepOK]_vars

\* A graph with a self-loop and a cycle through main was traversed from
\* main to the end.
C9_Witness ==
    /\ pc = "done"
    /\ root_candidates # <<>>
    /\ root = N_main
    /\ {<<N_main, N_A>>, <<N_A, N_A>>, <<N_A, N_B>>, <<N_B, N_main>>} \subseteq EdgeSet
    /\ N_B \in bfs.visited

\* The nodes reached from r by at most k of the kept edges.
RECURSIVE KeptReach(_, _)
KeptReach(k, r) ==
    IF k = 0 THEN {r}
    ELSE LET S == KeptReach(k - 1, r)
         IN  S \cup {e[2] : e \in {f \in Range(sub_edges) : f[1] \in S}}

\* The edge list with the edges at positions i and i + 1 exchanged.
Swap(es, i) == [es EXCEPT ![i] = es[i + 1], ![i + 1] = es[i]]

====
